---- MODULE Spec2Model ----
(***************************************************************************)
(* Model of nats/consumer_command.go: the consumer commands of the NATS    *)
(* CLI.  Each command is a sequential program over the broker connection;  *)
(* every broker call is a step whose outcome the broker decides.           *)
(***************************************************************************)
EXTENDS Integers, Sequences, FiniteSets, TLC

VARIABLES
    cmd,            \* the command that was invoked
    pc,             \* position of the command in its code
    outcome,        \* "running", "returned", "fatal" (kingpin fatal exit), "panic"
    err,            \* the error returned or reported, "nil" for none
    events,         \* what the command did on the connection and the terminal, in order
    ackFlag,        \* --ack as the caller gave it
    ack,            \* c.ack
    raw,            \* c.raw
    ackWait,        \* c.ackWait
    consAckPolicy,  \* the AckPolicy of the consumer on the broker
    consPull,       \* whether the consumer on the broker is in pull mode
    leader,         \* leaderStandDown: leader captured before the request
    info,           \* leaderStandDown: the last value assigned to info
    ctr,            \* leaderStandDown: ctr
    timerRecv,      \* leaderStandDown: values received from the timer channel
    msg,            \* getNextMsgDirect: the message received
    stime,          \* getNextMsgDirect: the delay before the acknowledgment
    delivered,      \* subscribeConsumer: messages handed to the callback
    given,          \* create and copy: the arguments, flags and environment as given
    c,              \* create and copy: the consumerCmd fields the builder reads and sets
    source,         \* copy: the configuration of the source consumer
    cfg,            \* create and copy: the configuration being built
    supplied,       \* create and copy: inputs that differ from their default so far
    written,        \* create: what was written to the output file
    submitted       \* create and copy: the configuration sent to the broker

vars == <<cmd, pc, outcome, err, events, ackFlag, ack, raw, ackWait, consAckPolicy, consPull,
          leader, info, ctr, timerRecv, msg, stime, delivered,
          given, c, source, cfg, supplied, written, submitted>>

flagVars == <<cmd, ackFlag, ack, raw, ackWait, consAckPolicy, consPull>>
sdVars == <<leader, info, ctr, timerRecv>>
fetchVars == <<msg, stime>>
buildVars == <<given, c, source, cfg, supplied, written, submitted>>

-----------------------------------------------------------------------------
(* Bounds of the model *)

\* messages the broker delivers to a push subscription
MaxMsgs == 3
\* largest --wait value, in time units
MaxAckWait == 2
\* arguments, flags and prompt answers that differ from their default in one run
\* of add or copy
MaxSupplied == 2

(* Program constants *)

\* time.NewTimer sends one value on its channel
TimerSends == 1
\* the attempt count at which the poll loop gives up
MaxAttempts == 5

-----------------------------------------------------------------------------
(* Values *)

Commands == {"step-down", "next", "sub", "add", "copy"}
BuilderCommands == {"add", "copy"}
AckPolicies == {"none", "all", "explicit"}
AckWaits == (0 - 1) .. MaxAckWait
Leaders == {"", "n1", "n2"}

\* what consumer.State() can hand back: an error, or a state with or without
\* cluster information
NoInfo == [failed |-> FALSE, clustered |-> FALSE, leader |-> ""]
StateResults ==
    {[failed |-> TRUE, clustered |-> FALSE, leader |-> ""], NoInfo}
        \cup {[failed |-> FALSE, clustered |-> TRUE, leader |-> l] : l \in Leaders}

\* what sub.NextMsg and the subscription callback can receive: meta says whether
\* the reply subject parses as JetStream metadata, reply whether there is one;
\* NoMsg is the nil message
NoMsg == [present |-> FALSE, meta |-> FALSE, reply |-> FALSE, headers |-> FALSE]
Msgs ==
    {[present |-> TRUE, meta |-> m, reply |-> r, headers |-> h] :
        m \in BOOLEAN, r \in BOOLEAN, h \in BOOLEAN} \
    {[present |-> TRUE, meta |-> TRUE, reply |-> FALSE, headers |-> h] : h \in BOOLEAN}

-----------------------------------------------------------------------------
(* Values of the configuration builder.  A string of decimal digits is the      *)
(* sequence of its digits, and a number too large for the checker's integers   *)
(* is the sequence of its digits without leading zeros.                        *)

\* the largest int: 9223372036854775807
IntMax == <<9, 2, 2, 3, 3, 7, 2, 0, 3, 6, 8, 5, 4, 7, 7, 5, 8, 0, 7>>
IntMaxPlusOne == <<9, 2, 2, 3, 3, 7, 2, 0, 3, 6, 8, 5, 4, 7, 7, 5, 8, 0, 8>>

RECURSIVE Canon(_)
\* the number a string of digits denotes
Canon(ds) == IF Len(ds) > 1 /\ ds[1] = 0 THEN Canon(Tail(ds)) ELSE ds

\* a <= b for numbers
NumLeq(a, b) ==
    \/ Len(a) < Len(b)
    \/ /\ Len(a) = Len(b)
       /\ \/ a = b
          \/ LET i == CHOOSE k \in 1 .. Len(a) :
                        a[k] # b[k] /\ \A j \in 1 .. (k - 1) : a[j] = b[j]
             IN  a[i] < b[i]

\* seq, _ := strconv.Atoi(policy): the value, or the largest int when the string
\* is out of range (the error is dropped)
Atoi(ds) == IF NumLeq(Canon(ds), IntMax) THEN Canon(ds) ELSE IntMax

RECURSIVE Itoa(_)
\* strconv.Itoa of a number that is not negative
Itoa(n) == IF n < 10 THEN <<n>> ELSE Itoa(n \div 10) \o <<n % 10>>

\* a --deliver token: its lexical class, with its digits or its duration
Tok(k, ds, d) == [kind |-> k, digits |-> ds, dur |-> d]
NoToken == Tok("empty", <<>>, 0)
KeywordTokens == {Tok(k, <<>>, 0) : k \in {"all", "last", "new", "next"}}
DigitTokens ==
    {Tok("digits", ds, 0) : ds \in {<<0>>, <<5>>, <<0, 7>>, IntMax, IntMaxPlusOne}}
DurationTokens == {Tok("duration", <<>>, d) : d \in {1, 2}}
OtherTokens == {Tok("other", <<>>, 0)}
StartTokens == KeywordTokens \cup DigitTokens \cup DurationTokens \cup OtherTokens

\* parseDurationString: the duration, or an error for a string that is none
parseDurationString(t) == [ok |-> t.kind = "duration", d |-> t.dur]

\* strings.ToLower on the ack and replay policy names
ToLower(s) == IF s = "None" THEN "none" ELSE s

NoTime == [set |-> FALSE, ago |-> 0]

\* the zero api.ConsumerConfig
ZeroCfg ==
    [durable |-> "", deliver |-> "", deliverPolicy |-> "all", optStartSeq |-> <<0>>,
     optStartTime |-> NoTime, ackPolicy |-> "none", ackWait |-> 0, maxDeliver |-> 0,
     filter |-> "", replay |-> "instant", sample |-> <<>>, rateLimit |-> 0,
     maxAckPending |-> 0]

defaultConsumer == [ZeroCfg EXCEPT !.ackPolicy = "explicit", !.replay = "instant"]

\* the result of a helper that may end the command: "invalid" for kingpin.Fatalf
replayPolicyFromString(p) ==
    CASE ToLower(p) = "instant" -> "instant"
      [] ToLower(p) = "original" -> "original"
      [] OTHER -> "invalid"

ackPolicyFromString(p) ==
    CASE ToLower(p) = "none" -> "none"
      [] ToLower(p) = "all" -> "all"
      [] ToLower(p) = "explicit" -> "explicit"
      [] OTHER -> "invalid"

\* sampleFreqFromString(s) of a command whose samplePct is pct
sampleFreqFromString(s, pct) ==
    IF s > 100 \/ s < 0
      THEN [ok |-> FALSE, val |-> <<>>]
      ELSE IF s > 0 THEN [ok |-> TRUE, val |-> Itoa(pct)]
                    ELSE [ok |-> TRUE, val |-> <<>>]

\* setStartPolicy: ok is FALSE when it ends the command
setStartPolicy(cf, policy) ==
    IF policy.kind = "empty"
      THEN [ok |-> TRUE, cfg |-> cf]
      ELSE IF policy.kind = "all"
        THEN [ok |-> TRUE, cfg |-> [cf EXCEPT !.deliverPolicy = "all"]]
        ELSE IF policy.kind = "last"
          THEN [ok |-> TRUE, cfg |-> [cf EXCEPT !.deliverPolicy = "last"]]
          ELSE IF policy.kind = "new" \/ policy.kind = "next"
            THEN [ok |-> TRUE, cfg |-> [cf EXCEPT !.deliverPolicy = "new"]]
            ELSE IF policy.kind = "digits"
              THEN [ok |-> TRUE,
                    cfg |-> [cf EXCEPT !.deliverPolicy = "by_start_sequence",
                                       !.optStartSeq = Atoi(policy.digits)]]
              ELSE LET r == parseDurationString(policy)
                   IN  IF ~r.ok
                         THEN [ok |-> FALSE, cfg |-> cf]
                         ELSE [ok |-> TRUE,
                               cfg |-> [cf EXCEPT !.deliverPolicy = "by_start_time",
                                                  !.optStartTime =
                                                      [set |-> TRUE, ago |-> r.d]]]

\* names with a character a durable name can not have
BadNames == {"a.b", "a*", "a>"}

\* the content of a --config file: the keys of its JSON object and their values
NoFile == [path |-> "", readable |-> FALSE, wellformed |-> FALSE, keys |-> {},
           vals |-> ZeroCfg]
File(ks, vs) == [path |-> "in.json", readable |-> TRUE, wellformed |-> TRUE,
                 keys |-> ks, vals |-> vs]
InputFiles ==
    {File({"durable", "ackPolicy"},
          [ZeroCfg EXCEPT !.durable = "x", !.ackPolicy = "explicit"]),
     File({}, ZeroCfg),
     File({"durable", "ackPolicy", "maxDeliver", "rateLimit"},
          [ZeroCfg EXCEPT !.durable = "z", !.ackPolicy = "none", !.maxDeliver = 5,
                          !.rateLimit = 8]),
     [NoFile EXCEPT !.path = "in.json", !.readable = TRUE],
     [NoFile EXCEPT !.path = "in.json"]}

\* the fields of consumerCmd the builder uses, as kingpin leaves them when nothing
\* is given; file is the file named by inputFile, novalidate the NOVALIDATE variable
DefaultFlags ==
    [consumer |-> "", destination |-> "", file |-> NoFile, outFile |-> "",
     validateOnly |-> FALSE, novalidate |-> FALSE, bpsRateLimit |-> 0,
     maxAckPending |-> 0 - 1, maxDeliver |-> 0, pull |-> FALSE, replayPolicy |-> "",
     startPolicy |-> NoToken, ackPolicy |-> "", ackWait |-> 0 - 1, samplePct |-> 0 - 1,
     filterSubject |-> "_unset_", delivery |-> "", ephemeral |-> FALSE]

\* configurations a source consumer of copy can have
Sources ==
    {[ZeroCfg EXCEPT !.durable = "src", !.deliver = "d", !.ackPolicy = "none",
                     !.maxDeliver = 0 - 1],
     [ZeroCfg EXCEPT !.durable = "src", !.ackPolicy = "explicit", !.ackWait = 3,
                     !.deliverPolicy = "by_start_sequence", !.optStartSeq = <<1, 0>>,
                     !.maxDeliver = 5, !.maxAckPending = 4],
     [ZeroCfg EXCEPT !.durable = "src", !.deliver = "d", !.ackPolicy = "all",
                     !.ackWait = 3, !.deliverPolicy = "by_start_time",
                     !.optStartTime = [set |-> TRUE, ago |-> 2], !.maxDeliver = 5,
                     !.replay = "original", !.sample = <<5, 0>>, !.rateLimit = 8,
                     !.filter = "f"]}

NotWritten == [done |-> FALSE, empty |-> TRUE, keys |-> {}, vals |-> ZeroCfg]
NotSubmitted == [done |-> FALSE, cfg |-> ZeroCfg]

\* 1 for an input that is not its default
D(v, default) == IF v = default THEN 0 ELSE 1

-----------------------------------------------------------------------------
(* How a command ends *)

Return(e) == pc' = "done" /\ outcome' = "returned" /\ err' = e

Fatal(e) == pc' = "done" /\ outcome' = "fatal" /\ err' = e

Panic == pc' = "done" /\ outcome' = "panic" /\ err' = "nil pointer dereference"

Goto(l) == pc' = l /\ UNCHANGED <<outcome, err>>

\* an entry of events: what was done, and for which attempt or message
E(op, n) == [op |-> op, n |-> n]

Emit(es) == events' = events \o es

-----------------------------------------------------------------------------
\* the arguments and flags of add and copy: at most MaxSupplied of them are given
InitBuilder ==
    /\ source \in (IF cmd = "copy" THEN Sources ELSE {ZeroCfg})
    /\ \E name \in (IF cmd = "add" THEN {"", "x"} \cup BadNames ELSE {"src"}),
          file \in (IF cmd = "add" THEN {NoFile} \cup InputFiles ELSE {NoFile}),
          out \in (IF cmd = "add" THEN {"", "out.json"} ELSE {""}),
          vonly \in (IF cmd = "add" THEN BOOLEAN ELSE {FALSE}),
          noval \in (IF cmd = "add" THEN BOOLEAN ELSE {FALSE}) :
        LET n1 == D(name, IF cmd = "add" THEN "" ELSE "src") + D(file, NoFile)
                    + D(out, "") + D(vonly, FALSE) + D(noval, FALSE)
        IN
        /\ n1 <= MaxSupplied
        /\ \E target \in {"", "d"}, pull \in BOOLEAN, eph \in BOOLEAN,
              start \in {NoToken} \cup StartTokens :
            LET n2 == n1 + D(target, "") + D(pull, FALSE) + D(eph, FALSE)
                        + D(start, NoToken)
            IN
            /\ n2 <= MaxSupplied
            /\ \E ackp \in {"", "none", "all", "explicit", "None", "bogus"},
                  replay \in {"", "instant", "original"},
                  filter \in {"_unset_", "", "f"},
                  wait \in {0 - 1, 0, 2} :
                LET n3 == n2 + D(ackp, "") + D(replay, "") + D(filter, "_unset_")
                            + D(wait, 0 - 1)
                IN
                /\ n3 <= MaxSupplied
                /\ \E pct \in {0 - 5, 0 - 1, 0, 50, 100, 101},
                      maxdel \in {0 - 1, 0, 3},
                      bps \in {0, 8},
                      pending \in {0 - 1, 0, 4} :
                    LET n4 == n3 + D(pct, 0 - 1) + D(maxdel, 0) + D(bps, 0)
                                + D(pending, 0 - 1)
                    IN
                    /\ n4 <= MaxSupplied
                    /\ supplied = n4
                    /\ given =
                         [consumer |-> name,
                          destination |-> IF cmd = "copy" THEN "y" ELSE "",
                          file |-> file, outFile |-> out, validateOnly |-> vonly,
                          novalidate |-> noval, bpsRateLimit |-> bps,
                          maxAckPending |-> pending, maxDeliver |-> maxdel,
                          pull |-> pull, replayPolicy |-> replay,
                          startPolicy |-> start, ackPolicy |-> ackp, ackWait |-> wait,
                          samplePct |-> pct, filterSubject |-> filter,
                          delivery |-> target, ephemeral |-> eph]

InitNoBuilder ==
    /\ source = ZeroCfg
    /\ supplied = 0
    /\ given = DefaultFlags

Init ==
    /\ cmd \in Commands
    /\ pc = (IF cmd = "add" THEN "prepare" ELSE "connect")
    /\ IF cmd \in BuilderCommands THEN InitBuilder ELSE InitNoBuilder
    /\ c = given
    /\ cfg = ZeroCfg
    /\ written = NotWritten
    /\ submitted = NotSubmitted
    /\ outcome = "running"
    /\ err = "nil"
    /\ events = <<>>
    /\ ackFlag \in (IF cmd \in {"next", "sub"} THEN BOOLEAN ELSE {FALSE})
    /\ ack = ackFlag
    /\ raw \in (IF cmd \in {"next", "sub"} THEN BOOLEAN ELSE {FALSE})
    /\ ackWait \in (IF cmd = "next" THEN AckWaits ELSE {0})
    /\ consAckPolicy \in (IF cmd \in {"next", "sub"} THEN AckPolicies ELSE {"explicit"})
    /\ consPull \in (IF cmd = "sub" THEN BOOLEAN ELSE {TRUE})
    /\ leader = ""
    /\ info = NoInfo
    /\ ctr = 0
    /\ timerRecv = 0
    /\ msg = NoMsg
    /\ stime = 0
    /\ delivered = 0

-----------------------------------------------------------------------------
(* connectAndSetup *)

FirstStep(command) ==
    CASE command = "step-down" -> "sd_load"
      [] command = "next" -> "f_subscribe"
      [] command = "sub" -> "sub_load"
      [] command = "add" -> "create_submit"
      [] command = "copy" -> "cp_load"

Connect ==
    /\ pc = "connect"
    /\ \E ok \in BOOLEAN :
        IF ok THEN Goto(FirstStep(cmd)) ELSE Fatal("setup failed")
    /\ UNCHANGED <<events, flagVars, sdVars, fetchVars, delivered, buildVars>>

-----------------------------------------------------------------------------
(* leaderStandDown *)

SD_Load ==
    /\ pc = "sd_load"
    /\ \E ok \in BOOLEAN :
        IF ok THEN Goto("sd_state") ELSE Return("load failed")
    /\ UNCHANGED <<events, flagVars, sdVars, fetchVars, delivered, buildVars>>

NotClustered_Unchecked(r) == FALSE

\* info.Cluster == nil
NotClustered(r) == ~r.clustered

SD_State ==
    /\ pc = "sd_state"
    /\ \E r \in StateResults :
        /\ info' = r
        /\ Emit(<<E("fetch state", 0)>>)
        /\ IF r.failed
             THEN Return("state failed") /\ UNCHANGED leader
             ELSE IF NotClustered(r)
                    THEN Return("not clustered") /\ UNCHANGED leader
                    ELSE leader' = r.leader /\ Goto("sd_request")
    /\ UNCHANGED <<flagVars, ctr, timerRecv, fetchVars, delivered, buildVars>>

SD_Request ==
    /\ pc = "sd_request"
    /\ Emit(<<E("step down request", 0)>>)
    /\ \E ok \in BOOLEAN :
        IF ok
          THEN Goto("sd_loop") /\ ctr' = 0 /\ timerRecv' = 0
          ELSE Return("step down failed") /\ UNCHANGED <<ctr, timerRecv>>
    /\ UNCHANGED <<flagVars, leader, info, fetchVars, delivered, buildVars>>

LeaderChanged_Never(r, l) == FALSE

\* the loop is left when the fetched state names another leader
LeaderChanged(r, l) == r.leader # l

\* one iteration of the loop over the timer's channel: it runs when the channel
\* delivers a value
SD_Poll ==
    /\ pc = "sd_loop"
    /\ timerRecv < TimerSends
    /\ timerRecv' = timerRecv + 1
    /\ IF ctr = MaxAttempts
         THEN /\ Return("did not elect a new leader in time")
              /\ UNCHANGED <<events, info, ctr>>
         ELSE /\ ctr' = ctr + 1
              /\ \E r \in StateResults :
                    /\ info' = r
                    /\ IF r.failed
                         THEN /\ Emit(<<E("poll", ctr'), E("log fetch failed", ctr')>>)
                              /\ Goto("sd_loop")
                         ELSE IF ~r.clustered
                                THEN Emit(<<E("poll", ctr')>>) /\ Panic
                                ELSE IF LeaderChanged(r, leader)
                                       THEN /\ Emit(<<E("poll", ctr'),
                                                      E("log new leader", ctr')>>)
                                            /\ Goto("sd_after")
                                       ELSE Emit(<<E("poll", ctr')>>) /\ Goto("sd_loop")
    /\ UNCHANGED <<flagVars, leader, fetchVars, delivered, buildVars>>

\* after the loop: the report, then showConsumer
SD_After ==
    /\ pc = "sd_after"
    /\ LET report == IF info.leader = leader
                        THEN <<E("log leader did not change", ctr)>>
                        ELSE <<>>
       IN  \E r \in StateResults :
              IF r.failed
                THEN Emit(report) /\ Fatal("could not load Consumer")
                ELSE Emit(report \o <<E("show consumer", ctr)>>) /\ Return("nil")
    /\ UNCHANGED <<flagVars, sdVars, fetchVars, delivered, buildVars>>

StepDown == SD_Load \/ SD_State \/ SD_Request \/ SD_Poll \/ SD_After

-----------------------------------------------------------------------------
(* getNextMsgDirect *)

F_Subscribe ==
    /\ pc = "f_subscribe"
    /\ \E ok \in BOOLEAN :
        IF ok THEN Goto("f_request") ELSE Fatal("subscribe failed")
    /\ UNCHANGED <<events, flagVars, sdVars, fetchVars, delivered, buildVars>>

F_Request ==
    /\ pc = "f_request"
    /\ Emit(<<E("next request", 1)>>)
    /\ \E ok \in BOOLEAN :
        IF ok THEN Goto("f_next") ELSE Fatal("could not request next message")
    /\ UNCHANGED <<flagVars, sdVars, fetchVars, delivered, buildVars>>

\* sub.NextMsg(timeout): a message, or an error when none arrived in time
NextMsgResults == [arrived : {TRUE}, m : Msgs] \cup {[arrived |-> FALSE, m |-> NoMsg]}

NoMessage_Unchecked(r) == FALSE

\* msg, err := sub.NextMsg(timeout); kingpin.FatalIfError(err, ...)
NoMessage(r) == ~r.arrived

F_NextMsg ==
    /\ pc = "f_next"
    /\ \E r \in NextMsgResults :
        IF NoMessage(r)
          THEN Fatal("no message received") /\ UNCHANGED msg
          ELSE msg' = r.m /\ Goto("f_render")
    /\ UNCHANGED <<events, flagVars, sdVars, stime, delivered, buildVars>>

\* the lines getNextMsgDirect prints for a message
FetchRender(m, r) ==
    IF r
      THEN <<E("print data", 1)>>
      ELSE (IF ~m.meta
              THEN (IF ~m.reply THEN <<E("print subject", 1)>>
                                ELSE <<E("print subject reply", 1)>>)
              ELSE <<E("print metadata", 1)>>)
           \o (IF m.headers THEN <<E("print headers", 1)>> ELSE <<>>)
           \o <<E("print data", 1)>>

F_Render ==
    /\ pc = "f_render"
    /\ Emit(FetchRender(msg, raw))
    /\ Goto("f_ack")
    /\ UNCHANGED <<flagVars, sdVars, fetchVars, delivered, buildVars>>

AckDelays_Inclusive(w) == IF w > 0 THEN 0 .. w ELSE {0}

\* stime: r.Intn(int(c.ackWait)) when c.ackWait > 0, else the zero duration
AckDelays(w) == IF w > 0 THEN 0 .. (w - 1) ELSE {0}

\* if c.ack { ... time.Sleep(stime) }
F_Delay ==
    /\ pc = "f_ack"
    /\ IF ack
         THEN \E d \in AckDelays(ackWait) :
                /\ stime' = d
                /\ IF d > 0 THEN Emit(<<E("sleep", d)>>) ELSE UNCHANGED events
                /\ Goto("f_respond")
         ELSE Return("nil") /\ UNCHANGED <<events, stime>>
    /\ UNCHANGED <<flagVars, sdVars, msg, delivered, buildVars>>

\* msg.Respond(nil): fails without a reply subject, or when the connection does
RespondResults(m) == IF m.reply THEN BOOLEAN ELSE {FALSE}

FetchAckFailed_Ignored == Goto("f_flush")

\* what getNextMsgDirect does when msg.Respond(nil) returned an error
FetchAckFailed == Fatal("could not Acknowledge message")

F_Respond ==
    /\ pc = "f_respond"
    /\ \E ok \in RespondResults(msg) :
        IF ok
          THEN Emit(<<E("respond nil", 1)>>) /\ Goto("f_flush")
          ELSE Emit(<<E("respond nil failed", 1)>>) /\ FetchAckFailed
    /\ UNCHANGED <<flagVars, sdVars, fetchVars, delivered, buildVars>>

F_Flush_NoFlush ==
    /\ pc = "f_flush"
    /\ Emit(IF ~raw THEN <<E("print acknowledged", stime)>> ELSE <<>>)
    /\ Return("nil")
    /\ UNCHANGED <<flagVars, sdVars, fetchVars, delivered, buildVars>>

\* c.nc.Flush(), whose result is not looked at, then the report and return nil
F_Flush ==
    /\ pc = "f_flush"
    /\ Emit(<<E("flush", 1)>>
            \o (IF ~raw THEN <<E("print acknowledged", stime)>> ELSE <<>>))
    /\ Return("nil")
    /\ UNCHANGED <<flagVars, sdVars, fetchVars, delivered, buildVars>>

Fetch == F_Subscribe \/ F_Request \/ F_NextMsg \/ F_Render \/ F_Delay \/ F_Respond
            \/ F_Flush

-----------------------------------------------------------------------------
(* subAction and subscribeConsumer *)

AckAfterLoad_Keep(a, policy) == a

\* if consumer.AckPolicy() == api.AckNone { c.ack = false }
AckAfterLoad(a, policy) == IF policy = "none" THEN FALSE ELSE a

Sub_Load ==
    /\ pc = "sub_load"
    /\ \E ok \in BOOLEAN :
        IF ok
          THEN /\ ack' = AckAfterLoad(ack, consAckPolicy)
               /\ Goto(IF consPull THEN "f_subscribe" ELSE "sub_subscribe")
          ELSE Fatal("could not get Consumer info") /\ UNCHANGED ack
    /\ UNCHANGED <<events, cmd, ackFlag, raw, ackWait, consAckPolicy, consPull, sdVars,
                   fetchVars, delivered, buildVars>>

Sub_Subscribe ==
    /\ pc = "sub_subscribe"
    /\ \E ok \in BOOLEAN :
        IF ok
          THEN /\ Emit((IF ~raw THEN <<E("print consumer info", 0)>> ELSE <<>>)
                       \o <<E("subscribe", 0)>>)
               /\ Goto("sub_wait")
          ELSE /\ Emit(IF ~raw THEN <<E("print consumer info", 0)>> ELSE <<>>)
               /\ Fatal("could not subscribe")
    /\ UNCHANGED <<flagVars, sdVars, fetchVars, delivered, buildVars>>

\* the lines the subscription callback prints for message n
SubRender(m, r, n) ==
    IF r
      THEN <<E("print data", n)>>
      ELSE (IF m.meta THEN <<E("print metadata", n)>>
                      ELSE <<E("print subject reply", n)>>)
           \o (IF m.headers THEN <<E("print headers", n)>> ELSE <<>>)
           \o <<E("print data", n)>>

\* what the callback does when m.Respond(nil) returned an error
SubAckFailed(n) == <<E("respond nil failed", n), E("print ack failed", n)>>

\* if c.ack { err = m.Respond(nil) ... }
SubAck(m, a, n) ==
    IF a
      THEN {IF ok THEN <<E("respond nil", n)>> ELSE SubAckFailed(n) :
                ok \in RespondResults(m)}
      ELSE {<<>>}

\* the callback of the subscription, run for each message the broker delivers
Sub_Handle ==
    /\ pc = "sub_wait"
    /\ delivered < MaxMsgs
    /\ delivered' = delivered + 1
    /\ \E m \in Msgs :
        IF ~m.meta
          THEN Fatal("could not parse JetStream metadata") /\ UNCHANGED events
          ELSE /\ \E acked \in SubAck(m, ack, delivered') :
                    Emit(SubRender(m, raw, delivered') \o acked)
               /\ Goto("sub_wait")
    /\ UNCHANGED <<flagVars, sdVars, fetchVars, buildVars>>

Subscribe == Sub_Load \/ Sub_Subscribe \/ Sub_Handle

-----------------------------------------------------------------------------
(* prepareConfig *)

\* the answers a prompt can get: any of them while fewer than MaxSupplied inputs
\* differ from their default, else the default answer; the value stays as it is
\* when the prompt is not asked
Answers(asked, current, default, others) ==
    IF asked
      THEN {default} \cup (IF supplied < MaxSupplied THEN others ELSE {})
      ELSE {current}

Answered(asked, a, default) == IF asked THEN D(a, default) ELSE 0

Asked(asked, what) == IF asked THEN <<E(what, 0)>> ELSE <<>>

\* json.Unmarshal of a file into base: ok is FALSE for a file that is not JSON
Unmarshal(base, file) ==
    IF ~file.wellformed
      THEN [ok |-> FALSE, cfg |-> base]
      ELSE [ok |-> TRUE,
            cfg |-> [f \in DOMAIN base |->
                        IF f \in file.keys THEN file.vals[f] ELSE base[f]]]

FileTarget_Defaults == defaultConsumer

\* cfg = &api.ConsumerConfig{}
FileTarget == ZeroCfg

\* the config file branch, else the defaults
Prepare_Start ==
    /\ pc = "prepare"
    /\ IF c.file.path # ""
         THEN IF ~c.file.readable
                THEN cfg' = ZeroCfg /\ Return("could not read file")
                ELSE LET parsed == Unmarshal(FileTarget, c.file)
                     IN  /\ cfg' = parsed.cfg
                         /\ IF /\ parsed.cfg.durable # ""
                               /\ c.consumer # ""
                               /\ parsed.cfg.durable # c.consumer
                              THEN Return("consumer name does not match")
                              ELSE IF ~parsed.ok
                                     THEN Return("could not parse file")
                                     ELSE Goto("create_switch")
         ELSE cfg' = defaultConsumer /\ Goto("p_name")
    /\ UNCHANGED <<events, flagVars, sdVars, fetchVars, delivered, given, c, source,
                   supplied, written, submitted>>

\* the characters of a name
Chars(name) ==
    CASE name = "" -> <<>>
      [] name = "a.b" -> <<"a", ".", "b">>
      [] name = "a*" -> <<"a", "*">>
      [] name = "a>" -> <<"a", ">">>
      [] OTHER -> <<name>>

DurableNameRejected_DotOnly(name) == \E i \in DOMAIN Chars(name) : Chars(name)[i] = "."

\* regexp.MatchString(`\.|\*|>`, cfg.Durable)
DurableNameRejected(name) ==
    \E i \in DOMAIN Chars(name) : Chars(name)[i] \in {".", "*", ">"}

\* the durable name
Prepare_Name ==
    /\ pc = "p_name"
    /\ LET asked == c.consumer = "" /\ ~c.ephemeral
       IN  \E a \in Answers(asked, c.consumer, "x", BadNames) :
              /\ supplied' = supplied + Answered(asked, a, "x")
              /\ c' = [c EXCEPT !.consumer = a]
              /\ cfg' = [cfg EXCEPT !.durable = a]
              /\ Emit(Asked(asked, "ask name"))
              /\ IF DurableNameRejected(a)
                   THEN Fatal("durable name can not contain '.', '*', '>'")
                   ELSE Goto("p_mode")
    /\ UNCHANGED <<flagVars, sdVars, fetchVars, delivered, given, source, written,
                   submitted>>

PullAckPolicy_Kept(delivery, ackPolicy) == ackPolicy

\* pull is always explicit
PullAckPolicy(delivery, ackPolicy) == IF delivery = "" THEN "explicit" ELSE ackPolicy

EphemeralPull_Allowed(ephemeral, delivery) == FALSE

\* if c.ephemeral && c.delivery == ""
EphemeralPull(ephemeral, delivery) == ephemeral /\ delivery = ""

\* push or pull
Prepare_Mode ==
    /\ pc = "p_mode"
    /\ LET asked == ~c.pull /\ c.delivery = ""
       IN  \E a \in (IF asked THEN {"", "d"} ELSE {c.delivery}) :
              /\ Emit(Asked(asked, "ask delivery"))
              /\ IF EphemeralPull(c.ephemeral, a)
                   THEN /\ Fatal("ephemeral Consumers has to be push-based")
                        /\ c' = [c EXCEPT !.delivery = a]
                        /\ UNCHANGED cfg
                   ELSE /\ c' = [c EXCEPT !.delivery = a,
                                          !.ackPolicy = PullAckPolicy(a, c.ackPolicy)]
                        /\ cfg' = [cfg EXCEPT !.deliver = a]
                        /\ Goto("p_start")
    /\ UNCHANGED <<flagVars, sdVars, fetchVars, delivered, given, source, supplied,
                   written, submitted>>

\* the start policy
Prepare_StartPolicy ==
    /\ pc = "p_start"
    /\ LET asked == c.startPolicy = NoToken
           all == Tok("all", <<>>, 0)
       IN  \E a \in Answers(asked, c.startPolicy, all, StartTokens \ {all}) :
              /\ supplied' = supplied + Answered(asked, a, all)
              /\ c' = [c EXCEPT !.startPolicy = a]
              /\ Emit(Asked(asked, "ask start"))
              /\ LET r == setStartPolicy(cfg, a)
                 IN  IF r.ok
                       THEN cfg' = r.cfg /\ Goto("p_ack")
                       ELSE UNCHANGED cfg /\ Fatal("could not parse starting delta")
    /\ UNCHANGED <<flagVars, sdVars, fetchVars, delivered, given, source, written,
                   submitted>>

\* cfg.MaxDeliver for an ack policy
NoAckMaxDeliver(policy, maxDeliver) == IF policy = "none" THEN 0 - 1 ELSE maxDeliver

\* the sample frequency prepareConfig sets: ok is FALSE when it ends the command
PrepareSample(pct, current) ==
    IF pct > 0
      THEN IF pct > 100 THEN [ok |-> FALSE, val |-> current]
                        ELSE [ok |-> TRUE, val |-> Itoa(pct)]
      ELSE [ok |-> TRUE, val |-> current]

\* ack policy, replay policy, ack wait and sample frequency.  The second replay
\* prompt is never asked: replayPolicy is set once the first was answered.
Prepare_Ack ==
    /\ pc = "p_ack"
    /\ LET askAck == c.ackPolicy = ""
           askReplay == c.replayPolicy = ""
       IN  \E a \in Answers(askAck, c.ackPolicy, "none", {"explicit", "all"}),
              rp \in Answers(askReplay, c.replayPolicy, "instant", {"original"}) :
              LET n == Answered(askAck, a, "none") + Answered(askReplay, rp, "instant")
                  policy == ackPolicyFromString(a)
                  sample == PrepareSample(c.samplePct, cfg.sample)
                  replay == replayPolicyFromString(rp)
              IN  /\ supplied + n <= MaxSupplied
                  /\ supplied' = supplied + n
                  /\ c' = [c EXCEPT !.ackPolicy = a, !.replayPolicy = rp]
                  /\ Emit(Asked(askAck, "ask ack") \o Asked(askReplay, "ask replay"))
                  /\ IF policy = "invalid"
                       THEN Fatal("invalid ack policy") /\ UNCHANGED cfg
                       ELSE IF ~sample.ok
                         THEN /\ Fatal("sample percent is not between 0 and 100")
                              /\ cfg' = [cfg EXCEPT
                                           !.ackPolicy = policy,
                                           !.maxDeliver = NoAckMaxDeliver(policy, @),
                                           !.ackWait = IF c.ackWait > 0 THEN c.ackWait
                                                                        ELSE @]
                         ELSE IF replay = "invalid"
                           THEN Fatal("invalid replay policy") /\ UNCHANGED cfg
                           ELSE /\ cfg' = [cfg EXCEPT
                                             !.ackPolicy = policy,
                                             !.maxDeliver = NoAckMaxDeliver(policy, @),
                                             !.ackWait = IF c.ackWait > 0 THEN c.ackWait
                                                                          ELSE @,
                                             !.sample = sample.val,
                                             !.replay = replay]
                                /\ Goto("p_filter")
    /\ UNCHANGED <<flagVars, sdVars, fetchVars, delivered, given, source, written,
                   submitted>>

\* the filter subject
Prepare_Filter ==
    /\ pc = "p_filter"
    /\ LET asked == c.filterSubject = "_unset_"
       IN  \E a \in Answers(asked, c.filterSubject, "", {"f"}) :
              /\ supplied' = supplied + Answered(asked, a, "")
              /\ c' = [c EXCEPT !.filterSubject = a]
              /\ cfg' = [cfg EXCEPT !.filter = a]
              /\ Emit(Asked(asked, "ask filter"))
              /\ Goto("p_limits")
    /\ UNCHANGED <<flagVars, sdVars, fetchVars, delivered, given, source, written,
                   submitted>>

\* rate limits are only possible on Push consumers
RateLimitOnPull(bps, deliver) == bps > 0 /\ deliver = ""

\* maximum deliveries, maximum pending acknowledgements and the rate limit
Prepare_Limits ==
    /\ pc = "p_limits"
    /\ LET askDeliver == c.maxDeliver = 0 /\ cfg.ackPolicy # "none"
           askPending == c.maxAckPending = 0 - 1 /\ cfg.ackPolicy # "none"
       IN  \E md \in Answers(askDeliver, c.maxDeliver, 0 - 1, {0, 3}),
              mp \in Answers(askPending, c.maxAckPending, 0, {0 - 1, 4}) :
              LET n == Answered(askDeliver, md, 0 - 1) + Answered(askPending, mp, 0)
                  pending == IF mp = 0 - 1 THEN 0 ELSE mp
              IN  /\ supplied + n <= MaxSupplied
                  /\ supplied' = supplied + n
                  /\ c' = [c EXCEPT !.maxDeliver = md, !.maxAckPending = pending]
                  /\ Emit(Asked(askDeliver, "ask max deliver")
                          \o Asked(askPending, "ask max pending"))
                  /\ IF RateLimitOnPull(c.bpsRateLimit, cfg.deliver)
                       THEN /\ Return("rate limits are only possible on Push consumers")
                            /\ cfg' = [cfg EXCEPT
                                         !.maxAckPending = pending,
                                         !.maxDeliver =
                                            IF md # 0 /\ cfg.ackPolicy # "none"
                                              THEN md ELSE @]
                       ELSE /\ cfg' = [cfg EXCEPT
                                         !.maxAckPending = pending,
                                         !.maxDeliver =
                                            IF md # 0 /\ cfg.ackPolicy # "none"
                                              THEN md ELSE @,
                                         !.rateLimit = c.bpsRateLimit]
                            /\ Goto("create_switch")
    /\ UNCHANGED <<flagVars, sdVars, fetchVars, delivered, given, source, written,
                   submitted>>

Prepare == Prepare_Start \/ Prepare_Name \/ Prepare_Mode \/ Prepare_StartPolicy
              \/ Prepare_Ack \/ Prepare_Filter \/ Prepare_Limits

-----------------------------------------------------------------------------
(* validateCfg, createAction *)

\* the fields json always writes; the others are omitted when zero
AlwaysWritten == {"deliverPolicy", "ackPolicy", "replay"}

\* json.MarshalIndent of a configuration
Marshal(cf) ==
    [empty |-> FALSE,
     keys |-> AlwaysWritten \cup {f \in DOMAIN cf : cf[f] # ZeroCfg[f]},
     vals |-> cf]

\* a nil byte slice
NilBytes == [empty |-> TRUE, keys |-> {}, vals |-> ZeroCfg]

\* validateCfg: valid is what the schema validator answers
validateCfg(cf, novalidate, valid) ==
    IF novalidate
      THEN [valid |-> TRUE, j |-> NilBytes]
      ELSE [valid |-> valid, j |-> Marshal(cf)]

MayWrite_Always(v) == TRUE

\* the output file is written only for a valid configuration
MayWrite(v) == v.valid

\* the switch after prepareConfig
Create_Switch ==
    /\ pc = "create_switch"
    /\ \E valid \in BOOLEAN, wrote \in BOOLEAN :
          LET v == validateCfg(cfg, c.novalidate, valid)
          IN  IF c.validateOnly
                THEN /\ Emit(<<E("validate", IF v.valid THEN 1 ELSE 0),
                             E("print config", 0)>>)
                     /\ IF ~v.valid THEN Fatal("Validation Failed") ELSE Return("")
                     /\ UNCHANGED written
                ELSE IF c.outFile # ""
                  THEN IF ~MayWrite(v)
                         THEN /\ Fatal("Validation Failed")
                              /\ Emit(<<E("validate", 0)>>)
                              /\ UNCHANGED written
                         ELSE /\ written' = [done |-> TRUE, empty |-> v.j.empty,
                                             keys |-> v.j.keys, vals |-> v.j.vals]
                              /\ Emit(<<E("validate", IF v.valid THEN 1 ELSE 0),
                                      E("write file", 0)>>)
                              /\ IF wrote THEN Return("")
                                          ELSE Return("could not write file")
                  ELSE /\ Goto("connect")
                       /\ UNCHANGED <<events, written>>
    /\ UNCHANGED <<flagVars, sdVars, fetchVars, delivered, given, c, source, cfg,
                   supplied, submitted>>

\* NewConsumerFromDefault and showConsumer
Create_Submit ==
    /\ pc = "create_submit"
    /\ submitted' = [done |-> TRUE, cfg |-> cfg]
    /\ \E created \in BOOLEAN, shown \in BOOLEAN :
          IF ~created
            THEN /\ Emit(<<E("create", 0)>>)
                 /\ Fatal("Consumer creation failed")
            ELSE IF ~shown
              THEN Emit(<<E("create", 0)>>) /\ Fatal("could not load Consumer")
              ELSE Emit(<<E("create", 0), E("show", 0)>>) /\ Return("")
    /\ UNCHANGED <<flagVars, sdVars, fetchVars, delivered, given, c, source, cfg,
                   supplied, written>>

Create == Create_Switch \/ Create_Submit

-----------------------------------------------------------------------------
(* cpAction *)

Override_Always(supplied_, value, current) == value

\* if the input was supplied { cfg.Field = its value }
Override(supplied_, value, current) == IF supplied_ THEN value ELSE current

\* LoadConsumer of the source and its configuration
Cp_Load ==
    /\ pc = "cp_load"
    /\ \E loaded \in BOOLEAN :
          IF loaded
            THEN cfg' = source /\ Emit(<<E("load source", 0)>>) /\ Goto("cp_build")
            ELSE UNCHANGED <<cfg, events>> /\ Fatal("could not load source Consumer")
    /\ UNCHANGED <<flagVars, sdVars, fetchVars, delivered, given, c, source, supplied,
                   written, submitted>>

\* the flags that were given, over the source configuration
Cp_Build ==
    /\ pc = "cp_build"
    /\ LET sample == IF c.samplePct # 0 - 1
                       THEN sampleFreqFromString(c.samplePct, c.samplePct)
                       ELSE [ok |-> TRUE, val |-> cfg.sample]
           cfg1 == [cfg EXCEPT !.ackWait = Override(c.ackWait > 0, c.ackWait, @),
                               !.sample = sample.val]
           start == IF c.startPolicy # NoToken
                      THEN setStartPolicy(cfg1, c.startPolicy)
                      ELSE [ok |-> TRUE, cfg |-> cfg1]
           deliver == IF c.pull THEN ""
                      ELSE Override(c.delivery # "", c.delivery, start.cfg.deliver)
           ackPolicy == IF c.pull THEN "explicit" ELSE c.ackPolicy
           policy == IF ackPolicy # "" THEN ackPolicyFromString(ackPolicy)
                                       ELSE start.cfg.ackPolicy
           replay == IF c.replayPolicy # "" THEN replayPolicyFromString(c.replayPolicy)
                                            ELSE start.cfg.replay
           cfg2 == [start.cfg EXCEPT
                      !.durable = IF c.ephemeral THEN "" ELSE c.destination,
                      !.deliver = deliver]
       IN  IF ~sample.ok
             THEN /\ Fatal("sample percent is not between 0 and 100")
                  /\ cfg' = [cfg EXCEPT !.ackWait = cfg1.ackWait]
                  /\ UNCHANGED c
             ELSE IF ~start.ok
               THEN /\ Fatal("could not parse starting delta")
                    /\ cfg' = cfg1
                    /\ UNCHANGED c
               ELSE IF policy = "invalid"
                 THEN /\ Fatal("invalid ack policy")
                      /\ cfg' = cfg2
                      /\ c' = [c EXCEPT !.ackPolicy = ackPolicy]
                 ELSE IF replay = "invalid"
                   THEN /\ Fatal("invalid replay policy")
                        /\ cfg' = [cfg2 EXCEPT
                                     !.ackPolicy = policy,
                                     !.filter = Override(c.filterSubject # "_unset_",
                                                         c.filterSubject, @)]
                        /\ c' = [c EXCEPT !.ackPolicy = ackPolicy]
                   ELSE /\ cfg' = [cfg2 EXCEPT
                                     !.ackPolicy = policy,
                                     !.filter = Override(c.filterSubject # "_unset_",
                                                         c.filterSubject, @),
                                     !.replay = replay,
                                     !.maxDeliver = Override(c.maxDeliver # 0,
                                                             c.maxDeliver, @),
                                     !.rateLimit = Override(c.bpsRateLimit # 0,
                                                            c.bpsRateLimit, @),
                                     !.maxAckPending = Override(c.maxAckPending # 0 - 1,
                                                                c.maxAckPending, @)]
                        /\ c' = [c EXCEPT !.ackPolicy = ackPolicy]
                        /\ Goto("cp_submit")
    /\ UNCHANGED <<events, flagVars, sdVars, fetchVars, delivered, given, source,
                   supplied, written, submitted>>

\* NewConsumerFromDefault, and showConsumer for a durable copy
Cp_Submit ==
    /\ pc = "cp_submit"
    /\ submitted' = [done |-> TRUE, cfg |-> cfg]
    /\ \E created \in BOOLEAN, shown \in BOOLEAN :
          IF ~created
            THEN /\ Emit(<<E("create", 0)>>)
                 /\ Fatal("Consumer creation failed")
                 /\ UNCHANGED c
            ELSE IF cfg.durable = ""
              THEN Emit(<<E("create", 0)>>) /\ Return("") /\ UNCHANGED c
              ELSE /\ c' = [c EXCEPT !.consumer = cfg.durable]
                   /\ IF ~shown
                        THEN Emit(<<E("create", 0)>>) /\ Fatal("could not load Consumer")
                        ELSE Emit(<<E("create", 0), E("show", 0)>>) /\ Return("")
    /\ UNCHANGED <<flagVars, sdVars, fetchVars, delivered, given, source, cfg,
                   supplied, written>>

Copy == Cp_Load \/ Cp_Build \/ Cp_Submit

-----------------------------------------------------------------------------
Next == Connect \/ StepDown \/ Fetch \/ Subscribe \/ Prepare \/ Create \/ Copy

\* every step of the command is taken when it can be taken: the command is one
\* sequential program, and the broker answers every call
Fairness == WF_vars(Next)

Spec == Init /\ [][Next]_vars

FairSpec == Spec /\ Fairness

-----------------------------------------------------------------------------
(* Reading events *)

Has(es, op) == \E i \in DOMAIN es : es[i].op = op

Count(es, op) == Cardinality({i \in DOMAIN es : es[i].op = op})

CountFor(es, op, n) == Cardinality({i \in DOMAIN es : es[i].op = op /\ es[i].n = n})

\* every op2 in es comes after some op1
Before(es, op1, op2) ==
    \A j \in DOMAIN es : es[j].op = op2 => \E i \in 1 .. (j - 1) : es[i].op = op1

IsStepDown == cmd = "step-down"

-----------------------------------------------------------------------------
(* Claims about leaderStandDown *)

\* C1: once the broker accepted the step-down request (the command is in its poll
\* loop), leaderStandDown finishes, having made at most 5 polling attempts.
C1_StandDownFinishes ==
    (IsStepDown /\ pc = "sd_loop") ~> (pc = "done" /\ Count(events, "poll") <= MaxAttempts)

\* C2: when the state fetched before the request carries no cluster information,
\* leaderStandDown returns the "not clustered" error and no step-down request has
\* been issued.
C2_NotClusteredNoRequest ==
    (/\ IsStepDown
     /\ Has(events, "fetch state")
     /\ ~Has(events, "poll")
     /\ ~info.failed
     /\ ~info.clustered)
        => /\ outcome = "returned"
           /\ err = "not clustered"
           /\ ~Has(events, "step down request")

C2_Witness == IsStepDown /\ pc = "done" /\ err = "not clustered" /\ ~info.clustered

\* C3: the polling attempt whose fetched state names a leader other than the one
\* captured before the request leaves the loop, and once that has been seen no
\* further polling attempt is made.
C3_StopsOnFirstChange ==
    [][/\ (/\ IsStepDown
           /\ pc = "sd_loop"
           /\ ctr' = ctr + 1
           /\ ~info'.failed
           /\ info'.clustered
           /\ info'.leader # leader) => pc' = "sd_after"
       /\ (IsStepDown /\ Has(events, "log new leader"))
            => Count(events', "poll") = Count(events, "poll")]_vars

C3_Witness ==
    /\ IsStepDown
    /\ pc = "done"
    /\ Has(events, "log new leader")
    /\ ctr < MaxAttempts
    /\ info.leader # leader

\* C4: when the polling ends without a leader change having been seen, the
\* operation returns no error and has displayed the consumer: an accepted request
\* leads to a seen leader change or to a nil return after showConsumer, unless a
\* broker failure or a crash ends the command.
C4_ExhaustedIsReportedAndShown ==
    (IsStepDown /\ pc = "sd_loop")
        ~> \/ Has(events, "log new leader")
           \/ outcome \in {"fatal", "panic"}
           \/ (outcome = "returned" /\ err = "nil" /\ Has(events, "show consumer"))

\* C5: a failed state fetch in the poll loop uses one attempt and the next
\* attempt follows while attempts remain.
C5_FailedFetchThenNextAttempt ==
    \A k \in 1 .. (MaxAttempts - 1) :
        (IsStepDown /\ pc = "sd_loop" /\ ctr = k /\ info.failed) ~> (ctr = k + 1)

-----------------------------------------------------------------------------
(* Claims about getNextMsgDirect *)

\* getNextMsgDirect is reached from nextAction, and from subAction on a pull consumer
IsFetch == cmd = "next" \/ (cmd = "sub" /\ consPull)

\* acknowledgments attempted, sent or not
AckAttempts(es) == Count(es, "respond nil") + Count(es, "respond nil failed")

\* C6: with acknowledgment enabled and a message received, getNextMsgDirect sends
\* exactly one empty response, after the message was printed and after the delay,
\* and flushes the connection after the response and before it returns.
C6_AckOnceAfterRenderThenFlush ==
    IsFetch =>
        /\ AckAttempts(events) <= 1
        /\ Before(events, "print data", "respond nil")
        /\ (stime > 0 => Before(events, "sleep", "respond nil"))
        /\ Before(events, "respond nil", "flush")
        /\ (outcome = "returned" /\ ack /\ msg.present)
              => /\ Count(events, "respond nil") = 1
                 /\ Count(events, "flush") = 1

C6_Witness ==
    /\ IsFetch
    /\ outcome = "returned"
    /\ ack
    /\ stime > 0
    /\ Has(events, "sleep")
    /\ Has(events, "respond nil")
    /\ Has(events, "flush")

\* C7: when no message arrives before the wait expires, getNextMsgDirect fails,
\* and nothing has been printed for a message and no acknowledgment attempted.
C7_NoMessageFails ==
    (/\ IsFetch
     /\ Has(events, "next request")
     /\ err # "could not request next message"
     /\ pc # "f_next"
     /\ ~msg.present)
        => /\ pc = "done"
           /\ outcome = "fatal"
           /\ err = "no message received"
           /\ ~Has(events, "print data")
           /\ AckAttempts(events) = 0

C7_Witness == IsFetch /\ pc = "done" /\ err = "no message received" /\ ackFlag

\* C8: a failed acknowledgment in getNextMsgDirect ends the command with a fatal
\* error at once: it is the last thing done, there was one attempt, and neither
\* the flush nor the report of an acknowledged message follows.
C8_AckFailureIsFatal ==
    (IsFetch /\ Has(events, "respond nil failed"))
        => /\ pc = "done"
           /\ outcome = "fatal"
           /\ err = "could not Acknowledge message"
           /\ AckAttempts(events) = 1
           /\ events[Len(events)].op = "respond nil failed"
           /\ ~Has(events, "flush")
           /\ ~Has(events, "print acknowledged")

C8_Witness == IsFetch /\ msg.reply /\ Has(events, "respond nil failed")

-----------------------------------------------------------------------------
(* Claims about subAction and subscribeConsumer *)

IsPushSub == cmd = "sub" /\ ~consPull

\* C9: subscribing to a push consumer whose AckPolicy is None attempts no
\* acknowledgment, whatever the caller asked for and however many messages came.
C9_AckNonePushNeverAcks ==
    (IsPushSub /\ consAckPolicy = "none") => AckAttempts(events) = 0

C9_Witness ==
    /\ IsPushSub
    /\ consAckPolicy = "none"
    /\ ackFlag
    /\ delivered >= 2
    /\ Count(events, "print data") >= 2

\* C10: in the push subscription a failed acknowledgment of message k is reported
\* for k and the subscription goes on: every message after k is printed once and,
\* with acknowledgment enabled, acknowledged once.
C10_LaterMessagesHandledAfterAckFailure ==
    IsPushSub =>
        \A k \in 1 .. delivered :
            CountFor(events, "respond nil failed", k) > 0
                => /\ CountFor(events, "print ack failed", k) = 1
                   /\ \A n \in (k + 1) .. delivered :
                        /\ CountFor(events, "print data", n) = 1
                        /\ ack => CountFor(events, "respond nil", n)
                                    + CountFor(events, "respond nil failed", n) = 1

\* C11: once subscribeConsumer has registered its subscription, the command does
\* not end by itself, whatever messages arrive.
C11_SubscriptionNeverEndsItself ==
    (IsPushSub /\ Has(events, "subscribe")) => (outcome = "running" /\ pc = "sub_wait")

-----------------------------------------------------------------------------
(* The configuration builder: prepareConfig, createAction, cpAction *)

\* prepareConfig has returned a configuration built from flags and prompts
Prepared == cmd = "add" /\ c.file.path = "" /\ pc = "create_switch"

\* prepareConfig has returned the configuration of a file
PreparedFromFile == cmd = "add" /\ c.file.path # "" /\ pc = "create_switch"

\* cpAction has sent its configuration to the broker
Copied == cmd = "copy" /\ submitted.done

\* C12: every configuration the builder resolves with ack policy None, in create
\* from flags and prompts and in copy, has maxDeliver -1, whatever max-deliver
\* value was supplied.
C12_AckNoneMaxDeliverUnlimited ==
    /\ (Prepared /\ cfg.ackPolicy = "none") => cfg.maxDeliver = 0 - 1
    /\ (Copied /\ submitted.cfg.ackPolicy = "none") => submitted.cfg.maxDeliver = 0 - 1

\* C13: a rate limit supplied for a configuration in pull mode makes create (from
\* flags and prompts) and copy fail: no configuration with a rate limit and an
\* empty delivery subject is returned or submitted.
C13_RateLimitOnPullRejected ==
    /\ Prepared => ~(cfg.rateLimit > 0 /\ cfg.deliver = "")
    /\ (cmd = "add" /\ c.file.path = "" /\ given.bpsRateLimit > 0
          /\ pc = "done" /\ cfg.deliver = "" /\ ~Has(events, "create"))
         => err # ""
    /\ (Copied /\ given.bpsRateLimit > 0)
         => ~(submitted.cfg.rateLimit > 0 /\ submitted.cfg.deliver = "")

\* C14: without a config file, a configuration prepareConfig returns with an empty
\* delivery subject has ack policy Explicit, whatever ack policy was supplied.
C14_PullIsExplicit ==
    (Prepared /\ cfg.deliver = "") => cfg.ackPolicy = "explicit"

C14_Witness ==
    /\ Prepared /\ cfg.deliver = "" /\ cfg.ackPolicy = "explicit"
    /\ given.ackPolicy \in {"none", "all"}

\* the inputs of copy that override a field of the source configuration
OverridableInputs ==
    {"ackWait", "samplePct", "startPolicy", "ephemeral", "delivery", "pull",
     "ackPolicy", "filterSubject", "replayPolicy", "maxDeliver", "bpsRateLimit",
     "maxAckPending"}

SuppliedInputs == {F \in OverridableInputs : given[F] # DefaultFlags[F]}

\* the field of the configuration an input corresponds to
FieldOf(F) ==
    CASE F = "ackWait" -> {"ackWait"}
      [] F = "samplePct" -> {"sample"}
      [] F = "startPolicy" -> {"deliverPolicy", "optStartSeq", "optStartTime"}
      [] F = "ephemeral" -> {"durable"}
      [] F \in {"delivery", "pull"} -> {"deliver"}
      [] F = "ackPolicy" -> {"ackPolicy"}
      [] F = "filterSubject" -> {"filter"}
      [] F = "replayPolicy" -> {"replay"}
      [] F = "maxDeliver" -> {"maxDeliver"}
      [] F = "bpsRateLimit" -> {"rateLimit"}
      [] F = "maxAckPending" -> {"maxAckPending"}

\* the submitted configuration equals the source outside the fields fs and the
\* durable name, which is the destination unless the copy is ephemeral
SameAsSourceExcept(F, fs) ==
    /\ \A f \in (DOMAIN source) \ (fs \cup {"durable"}) : submitted.cfg[f] = source[f]
    /\ F # "ephemeral" => submitted.cfg.durable = given.destination

\* C15 as stated: with exactly one overridable input F supplied, the configuration
\* copy submits equals the source in every field except the field of F.
C15_CopyChangesOnlyOverriddenField ==
    (Copied /\ Cardinality(SuppliedInputs) = 1)
      => \A F \in SuppliedInputs : SameAsSourceExcept(F, FieldOf(F))

\* C15: with exactly one overridable input F supplied, the configuration copy
\* submits equals the source in every field except the field of F and, when F is
\* --pull, the ack policy, which is Explicit.
C15_CopyChangesOnlyOverriddenFieldOrPullAck ==
    (Copied /\ Cardinality(SuppliedInputs) = 1)
      => \A F \in SuppliedInputs :
            IF F = "pull"
              THEN /\ SameAsSourceExcept(F, FieldOf(F) \cup {"ackPolicy"})
                   /\ submitted.cfg.ackPolicy = "explicit"
              ELSE SameAsSourceExcept(F, FieldOf(F))

C15_Witness ==
    /\ Copied /\ SuppliedInputs = {"pull"}
    /\ source.ackPolicy # "explicit" /\ submitted.cfg.ackPolicy = "explicit"
    /\ source.deliver # "" /\ submitted.cfg.deliver = ""

\* setStartPolicy has run on the token c.startPolicy, in prepareConfig
StartPolicySet == cmd = "add" /\ c.file.path = "" /\ pc = "p_ack"

\* C16: setStartPolicy maps all to All, last to Last, new and next to New, a string
\* of digits to ByStartSequence with that integer as the sequence, a duration to
\* ByStartTime that long ago; any other token ends the operation.
C16_StartPolicyVariants ==
    /\ StartPolicySet =>
          LET t == c.startPolicy
          IN  CASE t.kind = "all" -> cfg.deliverPolicy = "all"
                [] t.kind = "last" -> cfg.deliverPolicy = "last"
                [] t.kind \in {"new", "next"} -> cfg.deliverPolicy = "new"
                [] t.kind = "digits" ->
                      /\ cfg.deliverPolicy = "by_start_sequence"
                      /\ cfg.optStartSeq = Canon(t.digits)
                [] t.kind = "duration" ->
                      /\ cfg.deliverPolicy = "by_start_time"
                      /\ cfg.optStartTime = [set |-> TRUE, ago |-> t.dur]
                [] OTHER -> FALSE
    /\ (cmd = "add" /\ c.file.path = "" /\ c.startPolicy.kind = "other")
          => pc \in {"prepare", "p_name", "p_mode", "p_start", "done"}
               /\ (pc = "done" => outcome = "fatal")

\* C17: with a config file, prepareConfig returns the parsed content of the file:
\* each field is the file's value, or the zero value when the file has no such
\* key; no prompt is asked and no flag, default or normalization changes a field.
C17_FileIsReturnedAsParsed ==
    PreparedFromFile =>
        /\ \A f \in DOMAIN ZeroCfg :
              cfg[f] = IF f \in c.file.keys THEN c.file.vals[f] ELSE ZeroCfg[f]
        /\ events = <<>>
        /\ c = given
        /\ (c.file.keys = {"durable", "ackPolicy"} /\ c.file.vals.durable = "x"
              /\ c.file.vals.ackPolicy = "explicit")
             => (cfg.durable = "x" /\ cfg.maxDeliver = 0 /\ cfg.ackPolicy = "explicit")

C17_Witness ==
    /\ PreparedFromFile /\ given.maxDeliver = 3
    /\ c.file.keys = {"durable", "ackPolicy"}
    /\ cfg.durable = "x" /\ cfg.maxDeliver = 0

\* a sample percentage that was supplied and is not within 0 .. 100
SampleOutOfRange ==
    given.samplePct # 0 - 1 /\ (given.samplePct < 0 \/ given.samplePct > 100)

\* C18: a supplied sample percentage outside 0 .. 100 makes create (from flags and
\* prompts) and copy fail; 0 leaves sampleFrequency empty and 1 .. 100 gives the
\* decimal string.
C18_SamplePercentChecked ==
    /\ (cmd = "add" /\ c.file.path = "" /\ SampleOutOfRange)
          => pc \in {"prepare", "p_name", "p_mode", "p_start", "p_ack", "done"}
               /\ (pc = "done" => outcome = "fatal")
    /\ (cmd = "copy" /\ SampleOutOfRange) => ~submitted.done
    /\ \A r \in {[cfg |-> cfg, on |-> Prepared],
                 [cfg |-> submitted.cfg, on |-> Copied /\ given.samplePct # 0 - 1]} :
          r.on => /\ given.samplePct = 0 => r.cfg.sample = <<>>
                  /\ given.samplePct = 50 => r.cfg.sample = <<5, 0>>
                  /\ given.samplePct = 100 => r.cfg.sample = <<1, 0, 0>>

\* the file createAction wrote, as the --config file of a later run
WrittenFile ==
    [path |-> "out.json", readable |-> TRUE, wellformed |-> ~written.empty,
     keys |-> written.keys, vals |-> written.vals]

\* C19: a configuration createAction saves to an output file is written so that
\* loading the file through the config-file path gives the configuration that was
\* saved, whether the validator or NOVALIDATE declared it valid.
C19_SavedFileLoadsBack ==
    (cmd = "add" /\ written.done) =>
        LET loaded == Unmarshal(ZeroCfg, WrittenFile)
        IN  loaded.ok /\ \A f \in DOMAIN ZeroCfg : loaded.cfg[f] = cfg[f]

\* what prepareConfig reports for an input it does not accept
ResolutionErrors ==
    {"could not read file", "consumer name does not match", "could not parse file",
     "durable name can not contain '.', '*', '>'",
     "ephemeral Consumers has to be push-based", "could not parse starting delta",
     "invalid ack policy", "sample percent is not between 0 and 100",
     "invalid replay policy", "rate limits are only possible on Push consumers"}

\* C20: in createAction an input error during resolution, and a validation
\* failure, end the operation with no file written and no create request sent.
C20_ErrorsPersistNothing ==
    (cmd = "add" /\ (err \in ResolutionErrors \/ CountFor(events, "validate", 0) > 0))
      => /\ pc = "done" /\ outcome \in {"returned", "fatal"}
         /\ ~written.done /\ ~submitted.done
         /\ ~Has(events, "write file") /\ ~Has(events, "create")

C20_Witness ==
    /\ cmd = "add" /\ c.outFile # "" /\ ~c.validateOnly
    /\ CountFor(events, "validate", 0) > 0
    /\ pc = "done" /\ ~written.done

\* a command that builds its configuration from flags and prompts
FromFlags == cmd = "add" /\ c.file.path = ""

NothingPersisted ==
    /\ ~written.done /\ ~submitted.done
    /\ ~Has(events, "write file") /\ ~Has(events, "create")

\* C21: without a config file, an ephemeral consumer whose resolved delivery
\* subject is empty makes prepareConfig fail; no configuration is produced.
C21_EphemeralPullFails ==
    (FromFlags /\ c.ephemeral /\ c.delivery = "")
      => /\ pc \in {"prepare", "p_name", "p_mode", "done"}
         /\ pc = "done" => outcome = "fatal"
         /\ NothingPersisted

C21_Witness ==
    /\ FromFlags /\ c.ephemeral /\ c.delivery = "" /\ ~c.pull
    /\ Has(events, "ask delivery")
    /\ pc = "done" /\ err = "ephemeral Consumers has to be push-based"

\* some character of the name is one of . * >
HasForbiddenChar(name) ==
    \E i \in DOMAIN Chars(name) :
        Chars(name)[i] = "." \/ Chars(name)[i] = "*" \/ Chars(name)[i] = ">"

\* C22: without a config file, a durable name with '.', '*' or '>' in it, from
\* the argument or from the prompt, makes prepareConfig fail; no configuration
\* with such a durable name is produced.
C22_BadDurableNameFails ==
    /\ (FromFlags /\ HasForbiddenChar(c.consumer))
         => /\ pc \in {"prepare", "p_name", "done"}
            /\ pc = "done" => outcome = "fatal"
            /\ NothingPersisted
    /\ (FromFlags /\ pc \notin {"prepare", "p_name", "done"})
         => ~HasForbiddenChar(cfg.durable)

C22_Witness ==
    /\ FromFlags /\ given.consumer = "" /\ c.consumer = "a*"
    /\ Has(events, "ask name")
    /\ pc = "done" /\ err = "durable name can not contain '.', '*', '>'"

-----------------------------------------------------------------------------
(* Further claims about retrieval, step-down and the start option *)

\* C23: for a consumer whose AckPolicy is None, subAction on a pull consumer and
\* nextAction send no acknowledgment for the fetched message, whatever the
\* caller asked for.
C23_AckNonePullNeverAcks ==
    (IsFetch /\ consAckPolicy = "none") => AckAttempts(events) = 0

\* C24: with acknowledgment enabled, getNextMsgDirect sleeps a delay d with
\* 0 <= d < ackWait when ackWait > 0 and does not sleep when ackWait <= 0; the
\* acknowledgment is sent after the sleep.
C24_DelayWithinAckWait ==
    (IsFetch /\ pc \in {"f_respond", "f_flush", "done"} /\ ack)
      => /\ ackWait > 0 => (0 <= stime /\ stime < ackWait)
         /\ ackWait <= 0 => (stime = 0 /\ ~Has(events, "sleep"))
         /\ \A i \in DOMAIN events : events[i].op = "sleep" => events[i].n = stime
         /\ stime > 0 => /\ Before(events, "sleep", "respond nil")
                         /\ Before(events, "sleep", "respond nil failed")
         /\ Count(events, "sleep") <= 1

C24_Witness ==
    /\ IsFetch /\ pc = "done" /\ ack
    /\ ackWait = MaxAckWait /\ stime = MaxAckWait - 1 /\ stime > 0
    /\ Has(events, "sleep") /\ Has(events, "respond nil")

\* C25: during polling, leaderStandDown reads the leader of a fetched state only
\* when the state has cluster information; a state fetched without it leads to
\* no crash.
C25_UnclusteredPollIsSafe ==
    (IsStepDown /\ Has(events, "poll") /\ ~info.failed /\ ~info.clustered)
      => outcome # "panic"

\* the start option of a configuration agrees with its deliver policy
StartOptionAgrees(cf) ==
    /\ cf.optStartSeq # ZeroCfg.optStartSeq => cf.deliverPolicy = "by_start_sequence"
    /\ cf.optStartTime.set => cf.deliverPolicy = "by_start_time"

\* C26: in every configuration create (from flags and prompts) or copy submits,
\* the start sequence is set only with ByStartSequence and the start time only
\* with ByStartTime.
C26_StartOptionMatchesPolicy ==
    /\ (FromFlags /\ submitted.done) => StartOptionAgrees(submitted.cfg)
    /\ Copied => StartOptionAgrees(submitted.cfg)

====
